---- MODULE Spec2Model ----
(***************************************************************************)
(* Model of src/video.py: one call of WebToVideo.create_video_with_effects *)
(* (filter/overlay loop, timeline assembly, audio mixing, audio/video      *)
(* reconciliation, write) followed by the summary that main() displays.    *)
(*                                                                         *)
(* Time is counted in whole seconds; a transition frame is sampled at      *)
(* k/TicksPerSecond seconds.  A frame value is the float the code computes *)
(* multiplied by FrameDen, so that every frame is an integer array.        *)
(* An image is one row of Width RGB pixels.                                *)
(***************************************************************************)
EXTENDS Integers, Sequences, FiniteSets

\* ---------------------------------------------------------------- bounds
MaxImages == 3
MaxDuration == 3
MaxNarration == 4
MaxMusic == 2
Width == 2
TicksPerSecond == 2

\* ------------------------------------------------------ program constants
\* duration=1 of the VideoClip a transition helper returns
TransitionSeconds == 1
\* crossfadeout(1).crossfadein(1)
FadeSeconds == 1
\* bg_volume=0.3, in tenths
DefaultBgVolume == 3

Min(a, b) == IF a < b THEN a ELSE b

VARIABLES
    pc,                     \* position in create_video_with_effects / main
    args,                   \* the arguments of the call
    images,                 \* the caller's list of images (the objects' content)
    i,                      \* loop index of the filter/overlay loop (1-based)
    image_clips,
    clips_with_transitions,
    final_clip,             \* the video track, one entry per second
    final_audio,            \* the audio track, one entry per second
    error,                  \* message of the exception raised, "" if none
    output,                 \* the file written: its video and audio tracks
    summary                 \* the record main() shows with st.json

vars == <<pc, args, images, i, image_clips, clips_with_transitions,
          final_clip, final_audio, error, output, summary>>

\* ----------------------------------------------------------------- inputs
TransitionKinds == {"fade", "slide_left", "slide_right", "zoom", "rotate"}
FilterKinds == {"none", "grayscale", "sepia", "blur", "sharpen", "edge_enhance"}
\* where the try body of one loop iteration raises, if it does
FaultPoints == {"none", "filter", "save"}
\* bg_volume as create_video_with_effects receives it, in tenths
VolumeArgs == {0, 3, 10, 15}

\* The i-th still the caller supplies: distinct, asymmetric pixel rows.
InputStill(n) ==
    [px |-> [c \in 1..Width |->
                <<(n * 70 + c * 40) % 256, (n * 30 + c * 90) % 256,
                  (n * 20 + c * 110) % 256>>],
     fx |-> <<>>]

NoFile == [video |-> <<>>, audio |-> <<>>, written |-> FALSE]
NoSummary == [shown |-> FALSE]

\* ---------------------------------------------------------------- filters
SepiaPixel(p) ==
    <<Min((393 * p[1] + 769 * p[2] + 189 * p[3]) \div 1000, 255),
      Min((349 * p[1] + 686 * p[2] + 168 * p[3]) \div 1000, 255),
      Min((272 * p[1] + 534 * p[2] + 131 * p[3]) \div 1000, 255)>>

\* apply_sepia writes through img.load() and returns img itself
apply_sepia(img) ==
    [same |-> TRUE,
     img |-> [img EXCEPT !.px = [c \in 1..Width |-> SepiaPixel(img.px[c])]]]

\* PIL's RGB -> L -> RGB
GrayPixel(p) ==
    LET l == (p[1] * 19595 + p[2] * 38470 + p[3] * 7471 + 32768) \div 65536
    IN  <<l, l, l>>

\* IMAGE_FILTERS[kind](img): the image returned and whether it is the
\* argument object itself (same) or a new image.  The kernels of blur,
\* sharpen and edge_enhance are recorded in fx, not computed.
IMAGE_FILTERS(kind, img) ==
    CASE kind = "none" -> [same |-> TRUE, img |-> img]
      [] kind = "grayscale" ->
            [same |-> FALSE,
             img |-> [img EXCEPT !.px = [c \in 1..Width |-> GrayPixel(img.px[c])]]]
      [] kind = "sepia" -> apply_sepia(img)
      [] OTHER -> [same |-> FALSE, img |-> [img EXCEPT !.fx = Append(@, <<kind, 0>>)]]

\* ImageDraw.Draw(img).text(...): draws on img in place
DrawText(img, n) == [img EXCEPT !.fx = Append(@, <<"text", n>>)]

\* One iteration of the loop body up to img.save: the image saved and the
\* content of the caller's object afterwards.
ProcessImage(img, n) ==
    LET f == IMAGE_FILTERS(args.image_filter, img)
        w == IF args.text_overlay THEN DrawText(f.img, n) ELSE f.img
    IN  [work |-> w, input |-> IF f.same THEN w ELSE img]

\* ImageClip(img_path).set_duration(duration_per_image)
ImageClip(n, img, d) ==
    [type |-> "ImageClip", path |-> n, img |-> img, dur |-> d,
     fadein |-> 0, fadeout |-> 0]


\* ------------------------------------------------------------ transitions
\* transfx.crossfadeout / crossfadein: the same clip with a fading mask
crossfadeout(clip, seconds) == [clip EXCEPT !.fadeout = seconds]

crossfadein(clip, seconds) == [clip EXCEPT !.fadein = seconds]

slide_transition(clip1, clip2, direction) ==
    [type |-> "slide", direction |-> direction, clip1 |-> clip1,
     clip2 |-> clip2, dur |-> TransitionSeconds]

zoom_transition(clip1, clip2) ==
    [type |-> "zoom", direction |-> "", clip1 |-> clip1, clip2 |-> clip2,
     dur |-> TransitionSeconds]

rotate_transition(clip1, clip2) ==
    [type |-> "rotate", direction |-> "", clip1 |-> clip1, clip2 |-> clip2,
     dur |-> TransitionSeconds]

TRANSITION_EFFECTS(kind, clip1, clip2) ==
    CASE kind = "fade" -> crossfadein(crossfadeout(clip1, FadeSeconds), FadeSeconds)
      [] kind = "slide_left" -> slide_transition(clip1, clip2, "left")
      [] kind = "slide_right" -> slide_transition(clip1, clip2, "right")
      [] kind = "zoom" -> zoom_transition(clip1, clip2)
      [] kind = "rotate" -> rotate_transition(clip1, clip2)

\* TRANSITION_EFFECTS.get(transition_effect, TRANSITION_EFFECTS['fade'])
transition_func(effect, clip1, clip2) ==
    IF effect \in TransitionKinds
    THEN TRANSITION_EFFECTS(effect, clip1, clip2)
    ELSE TRANSITION_EFFECTS("fade", clip1, clip2)

\* ----------------------------------------------------------------- frames
FadeTicks == TicksPerSecond * FadeSeconds
FrameDen == FadeTicks * FadeTicks
PerTick == FrameDen \div TicksPerSecond

Scaled(px, f) ==
    [c \in 1..Width |-> <<px[c][1] * f, px[c][2] * f, px[c][3] * f>>]

\* frame1 * wa + frame2 * wb
Merged(pa, wa, pb, wb) ==
    [c \in 1..Width |->
        <<pa[c][1] * wa + pb[c][1] * wb, pa[c][2] * wa + pb[c][2] * wb,
          pa[c][3] * wa + pb[c][3] * wb>>]

\* Image.rotate(angle) of a one-row image, angle = 180 * k / TicksPerSecond
\* degrees: PIL returns a copy for 0 and transposes for 180.  Other angles
\* resample; they are left undefined here.
Rotated(px, k) ==
    CASE k % TicksPerSecond = 0 /\ (k \div TicksPerSecond) % 2 = 0 -> px
      [] k % TicksPerSecond = 0 /\ (k \div TicksPerSecond) % 2 = 1 ->
            [c \in 1..Width |-> px[Width + 1 - c]]

\* the mask of an ImageClip k ticks after its start, as fadein * fadeout
MaskIn(clip, k) ==
    IF clip.fadein > 0 /\ k < clip.fadein * TicksPerSecond THEN k ELSE FadeTicks

MaskOut(clip, k) ==
    IF clip.fadeout > 0 /\ k >= (clip.dur - clip.fadeout) * TicksPerSecond
    THEN clip.dur * TicksPerSecond - k
    ELSE FadeTicks

\* slide_transition.make_frame(k / TicksPerSecond)
SlideFrame(clip, k) ==
    LET a == clip.clip1.img.px
        b == clip.clip2.img.px
    IN  IF clip.direction = "left"
        THEN LET offset == (Width * k) \div TicksPerSecond
             IN  [c \in 1..Width |->
                    IF c <= Width - offset THEN a[c + offset]
                    ELSE b[c - (Width - offset)]]
        ELSE LET offset == (Width * (TicksPerSecond - k)) \div TicksPerSecond
             IN  [c \in 1..Width |->
                    IF c <= offset THEN b[Width - offset + c]
                    ELSE a[c - offset]]

\* The frame a clip shows k ticks after its start, as composited on black.
Frame(clip, k) ==
    CASE clip.type = "ImageClip" ->
            Scaled(clip.img.px, MaskIn(clip, k) * MaskOut(clip, k))
      [] clip.type = "slide" -> Scaled(SlideFrame(clip, k), FrameDen)
      [] clip.type = "zoom" ->
            Merged(clip.clip1.img.px, (TicksPerSecond - k) * PerTick,
                   clip.clip2.img.px, k * PerTick)
      [] clip.type = "rotate" ->
            Merged(Rotated(clip.clip1.img.px, k), (TicksPerSecond - k) * PerTick,
                   Rotated(clip.clip2.img.px, k), k * PerTick)

\* The frame at local progress k / TicksPerSecond of the clip's duration.
FrameAtProgress(clip, k) == Frame(clip, k * clip.dur)

\* ----------------------------------------------------------------- tracks
\* concatenate_videoclips: the clips one after another, one entry a second
RECURSIVE concatenate_videoclips(_)
concatenate_videoclips(clips) ==
    IF clips = <<>> THEN <<>>
    ELSE concatenate_videoclips(SubSeq(clips, 1, Len(clips) - 1))
            \o [s \in 1..clips[Len(clips)].dur |-> [clip |-> Len(clips), sec |-> s]]

\* mutant of loop: whole cycles only, never cut part-way
loop_whole_cycles(track, d) ==
    [t \in 1..(((d + Len(track) - 1) \div Len(track)) * Len(track)) |->
        track[((t - 1) % Len(track)) + 1]]

\* clip.loop(duration=d)
loop(track, d) == [t \in 1..d |-> track[((t - 1) % Len(track)) + 1]]

\* clip.subclip(0, d)
subclip(track, d) == SubSeq(track, 1, d)

\* AudioFileClip(path) of the given length
AudioFileClip(seconds) == [t \in 1..seconds |-> t]

\* bg_music.volumex(bg_volume)
volumex(track, factor) == [t \in 1..Len(track) |-> [pos |-> track[t], vol |-> factor]]

Silence == [pos |-> 0, vol |-> 0]

\* CompositeAudioClip([main_audio, bg_music])
CompositeAudioClip(main, bg) ==
    [t \in 1..(IF Len(main) > Len(bg) THEN Len(main) ELSE Len(bg)) |->
        [main |-> IF t <= Len(main) THEN main[t] ELSE 0,
         bg |-> IF t <= Len(bg) THEN bg[t] ELSE Silence]]

mix_audio(main_audio, bg_music, bg_volume) ==
    LET bg == IF Len(bg_music) > Len(main_audio)
              THEN subclip(bg_music, Len(main_audio))
              ELSE loop(bg_music, Len(main_audio))
    IN  CompositeAudioClip(main_audio, volumex(bg, bg_volume))

\* the narration alone, in the shape of a final audio track
Unmixed(main) == [t \in 1..Len(main) |-> [main |-> main[t], bg |-> Silence]]


\* ---------------------------------------------------------------- actions
EmptyInputMessage == "Failed to create video with effects: No images provided for video creation"
NoValidSlidesMessage == "Failed to create video with effects: list index out of range"

ArgSets(n) ==
    [transition_effect : TransitionKinds \cup {"unknown"},
     image_filter : FilterKinds,
     text_overlay : BOOLEAN,
     duration_per_image : 1..MaxDuration,
     audio : 1..MaxNarration,
     bg_music : 0..MaxMusic,
     bg_volume : VolumeArgs,
     faults : [1..n -> FaultPoints]]

Start(a, n) ==
    /\ args = a
    /\ images = [k \in 1..n |-> InputStill(k)]
    /\ pc = "check"
    /\ i = 1
    /\ image_clips = <<>>
    /\ clips_with_transitions = <<>>
    /\ final_clip = <<>>
    /\ final_audio = <<>>
    /\ error = ""
    /\ output = NoFile
    /\ summary = NoSummary

\* Calls that vary the stills, the filter, the overlay, the faults and the
\* transition, with a one-second narration and no music.
Init ==
    \E n \in 0..MaxImages : \E a \in ArgSets(n) :
        /\ a.audio = 1 /\ a.bg_music = 0 /\ a.bg_volume = DefaultBgVolume
        /\ Start(a, n)

\* Calls that vary the number of stills, the transition, the slide duration,
\* the narration, the music and its volume, with unfiltered stills.
InitAudio ==
    \E n \in 0..MaxImages : \E a \in ArgSets(n) :
        /\ a.image_filter = "none" /\ ~a.text_overlay
        /\ \A k \in 1..n : a.faults[k] # "filter"
        /\ (a.bg_music = 0 => a.bg_volume = DefaultBgVolume)
        /\ Start(a, n)

\* if not images: raise ValueError(...), wrapped by the outer except
CheckImages ==
    /\ pc = "check"
    /\ IF images = <<>>
       THEN /\ pc' = "raised"
            /\ error' = EmptyInputMessage
       ELSE /\ pc' = "loop"
            /\ UNCHANGED error
    /\ UNCHANGED <<args, images, i, image_clips, clips_with_transitions,
                   final_clip, final_audio, output, summary>>

\* mutant of AppendClip: the newest clip goes first
PrependClip(clips, clip) == <<clip>> \o clips

\* image_clips.append(clip)
AppendClip(clips, clip) == Append(clips, clip)

\* one iteration of: for i, img in enumerate(images)
FilterImage ==
    /\ pc = "loop"
    /\ i <= Len(images)
    /\ LET r == ProcessImage(images[i], i)
       IN  CASE args.faults[i] = "filter" ->
                    UNCHANGED <<images, image_clips>>
             [] args.faults[i] = "save" ->
                    /\ images' = [images EXCEPT ![i] = r.input]
                    /\ UNCHANGED image_clips
             [] OTHER ->
                    /\ images' = [images EXCEPT ![i] = r.input]
                    /\ image_clips' =
                          AppendClip(image_clips,
                                     ImageClip(i, r.work, args.duration_per_image))
    /\ i' = i + 1
    /\ UNCHANGED <<pc, args, clips_with_transitions, final_clip, final_audio,
                   error, output, summary>>

\* mutant of Interleave: the two slides handed over in the wrong order
RECURSIVE InterleaveSwapped(_, _)
InterleaveSwapped(clips, effect) ==
    IF Len(clips) <= 1 THEN clips
    ELSE <<clips[1], transition_func(effect, clips[2], clips[1])>>
            \o InterleaveSwapped(Tail(clips), effect)

\* clips_with_transitions as the assembly loop builds it
RECURSIVE Interleave(_, _)
Interleave(clips, effect) ==
    IF Len(clips) <= 1 THEN clips
    ELSE <<clips[1], transition_func(effect, clips[1], clips[2])>>
            \o Interleave(Tail(clips), effect)

\* the assembly loop, image_clips[-1] and concatenate_videoclips
Assemble ==
    /\ pc = "loop"
    /\ i > Len(images)
    /\ IF image_clips = <<>>
       THEN /\ pc' = "raised"
            /\ error' = NoValidSlidesMessage
            /\ UNCHANGED <<clips_with_transitions, final_clip>>
       ELSE /\ pc' = "audio"
            /\ clips_with_transitions' = Interleave(image_clips, args.transition_effect)
            /\ final_clip' = concatenate_videoclips(clips_with_transitions')
            /\ UNCHANGED error
    /\ UNCHANGED <<args, images, i, image_clips, final_audio, output, summary>>

\* main_audio, and mix_audio when bg_music_path names a file
MixAudio ==
    /\ pc = "audio"
    /\ final_audio' =
          IF args.bg_music > 0
          THEN mix_audio(AudioFileClip(args.audio), AudioFileClip(args.bg_music),
                         args.bg_volume)
          ELSE Unmixed(AudioFileClip(args.audio))
    /\ pc' = "reconcile"
    /\ UNCHANGED <<args, images, i, image_clips, clips_with_transitions,
                   final_clip, error, output, summary>>

\* mutant of AudioIsLonger: the comparison reversed
AudioIsShorter(audio, clip) == Len(audio) < Len(clip)

\* final_audio.duration > final_clip.duration
AudioIsLonger(audio, clip) == Len(audio) > Len(clip)

\* the if/else that loops the shorter track, and set_audio
Reconcile ==
    /\ pc = "reconcile"
    /\ IF AudioIsLonger(final_audio, final_clip)
       THEN /\ final_clip' = loop(final_clip, Len(final_audio))
            /\ UNCHANGED final_audio
       ELSE /\ final_audio' = loop(final_audio, Len(final_clip))
            /\ UNCHANGED final_clip
    /\ pc' = "write"
    /\ UNCHANGED <<args, images, i, image_clips, clips_with_transitions,
                   error, output, summary>>

\* write_videofile and return output_path
WriteVideo ==
    /\ pc = "write"
    /\ output' = [video |-> final_clip, audio |-> final_audio, written |-> TRUE]
    /\ pc' = "returned"
    /\ UNCHANGED <<args, images, i, image_clips, clips_with_transitions,
                   final_clip, final_audio, error, summary>>

\* main: st.json({...}) after a video path came back
ShowSummary ==
    /\ pc = "returned"
    /\ summary' = [shown |-> TRUE,
                   Duration |-> args.duration_per_image * Len(images),
                   TransitionEffect |-> args.transition_effect,
                   ImageFilter |-> args.image_filter,
                   BackgroundMusic |-> args.bg_music > 0]
    /\ pc' = "shown"
    /\ UNCHANGED <<args, images, i, image_clips, clips_with_transitions,
                   final_clip, final_audio, error, output>>

\* main: except Exception -> st.error
ShowError ==
    /\ pc = "raised"
    /\ pc' = "error_shown"
    /\ UNCHANGED <<args, images, i, image_clips, clips_with_transitions,
                   final_clip, final_audio, error, output, summary>>

Next ==
    \/ CheckImages
    \/ FilterImage
    \/ Assemble
    \/ MixAudio
    \/ Reconcile
    \/ WriteVideo
    \/ ShowSummary
    \/ ShowError

Spec == Init /\ [][Next]_vars

SpecAudio == InitAudio /\ [][Next]_vars


\* ----------------------------------------------------------------- claims
Assembled == pc \in {"audio", "reconcile", "write", "returned", "shown"}
Failed == pc \in {"raised", "error_shown"}
NominalClip == concatenate_videoclips(clips_with_transitions)
Pixels(clip) == clip.img.px

\* C1: the timeline holds the n surviving slides, in input order, and n-1
\* transitions, alternating Slide, Transition, ..., Slide, and the k-th
\* transition is the configured transition built from slides k and k+1.
C1_TimelineAlternates ==
    Assembled =>
        LET n == Len(image_clips)
        IN  /\ n >= 1
            /\ Len(clips_with_transitions) = n + (IF n > 1 THEN n - 1 ELSE 0)
            /\ \A k \in 1..n : clips_with_transitions[2 * k - 1] = image_clips[k]
            /\ \A k \in 1..(n - 1) :
                  /\ image_clips[k].path < image_clips[k + 1].path
                  /\ clips_with_transitions[2 * k]
                        = transition_func(args.transition_effect,
                                          image_clips[k], image_clips[k + 1])

\* C1 witness: three surviving stills assembled into five timeline entries.
C1_Witness ==
    /\ pc = "audio"
    /\ Len(image_clips) = 3
    /\ Len(clips_with_transitions) = 5
    /\ args.transition_effect = "slide_left"

\* C2: every transition segment lasts one second whatever the slide
\* duration is, and the nominal timeline lasts n*d + (n-1)*1 seconds.
C2_TransitionsLastOneSecond ==
    Assembled =>
        LET n == Len(image_clips)
        IN  /\ \A k \in 1..(n - 1) :
                  clips_with_transitions[2 * k].dur = TransitionSeconds
            /\ Len(NominalClip)
                  = n * args.duration_per_image + (n - 1) * TransitionSeconds

\* C3: the reconciliation step leaves the audio and the video at least as
\* long as the video was before it, truncates neither track (each keeps its
\* former content as a prefix), and changes neither when they are equal.
C3_ReconcileNeverTruncates ==
    [][pc = "reconcile" =>
        /\ Len(final_audio') >= Len(final_clip)
        /\ Len(final_clip') >= Len(final_clip)
        /\ Len(final_audio') >= Len(final_audio)
        /\ SubSeq(final_clip', 1, Len(final_clip)) = final_clip
        /\ SubSeq(final_audio', 1, Len(final_audio)) = final_audio
        /\ (Len(final_audio) = Len(final_clip) =>
                final_clip' = final_clip /\ final_audio' = final_audio)]_vars

\* C3 witness: a mixed audio shorter than the video has been looped to the
\* video's length.
C3_Witness ==
    /\ pc = "write"
    /\ args.bg_music > 0
    /\ args.audio < Len(NominalClip)
    /\ Len(final_audio) = Len(NominalClip)

\* C4 as stated: an audio longer than the timeline extends the video by
\* whole cycles, to a multiple of the timeline's duration >= the audio's.
C4_ExtendedByWholeCycles ==
    [][pc = "reconcile" /\ Len(final_audio) > Len(final_clip) =>
        /\ Len(final_clip') % Len(final_clip) = 0
        /\ Len(final_clip') >= Len(final_audio)]_vars

\* C4 amended: an audio longer than the timeline makes the video the
\* timeline looped from its start and cut at exactly the audio's duration.
C4_ExtendedToAudioLength ==
    [][pc = "reconcile" /\ Len(final_audio) > Len(final_clip) =>
        /\ Len(final_clip') = Len(final_audio)
        /\ \A t \in 1..Len(final_clip') :
              final_clip'[t] = final_clip[((t - 1) % Len(final_clip)) + 1]
        /\ final_audio' = final_audio]_vars

\* C4 witness: the video was extended and its last cycle is cut part-way.
C4_Witness ==
    /\ pc = "write"
    /\ Len(final_clip) > Len(NominalClip)
    /\ Len(final_clip) % Len(NominalClip) # 0
    /\ Len(final_clip) = Len(final_audio)

Clamped(v) == IF v < 0 THEN 0 ELSE IF v > 10 THEN 10 ELSE v

\* C5: with music the mixed audio lasts as long as the narration, the music
\* trimmed or looped to it and scaled by bgVolume clamped into [0,1];
\* without music the final audio is the narration unchanged.
C5_MixedAudio ==
    pc = "reconcile" =>
        /\ Len(final_audio) = args.audio
        /\ \A t \in 1..Len(final_audio) :
              /\ final_audio[t].main = t
              /\ IF args.bg_music > 0
                 THEN /\ final_audio[t].bg.pos = ((t - 1) % args.bg_music) + 1
                      /\ final_audio[t].bg.vol = Clamped(args.bg_volume)
                 ELSE final_audio[t].bg = Silence

\* A * (1-t) + B * t at t = k / TicksPerSecond
CrossDissolve(a, b, k) == Merged(a, (TicksPerSecond - k) * PerTick, b, k * PerTick)

\* C6: for adjacent stills A and B the 'fade' and the 'zoom' segments last
\* equally long and show the same frame, A*(1-t) + B*t, at every progress t.
C6_FadeEqualsZoom ==
    Assembled =>
        \A k \in 1..(Len(image_clips) - 1) :
            LET fade == TRANSITION_EFFECTS("fade", image_clips[k], image_clips[k + 1])
                zoom == TRANSITION_EFFECTS("zoom", image_clips[k], image_clips[k + 1])
            IN  /\ fade.dur = zoom.dur
                /\ \A p \in 0..TicksPerSecond :
                      /\ FrameAtProgress(fade, p) = FrameAtProgress(zoom, p)
                      /\ FrameAtProgress(zoom, p)
                            = CrossDissolve(Pixels(image_clips[k]),
                                            Pixels(image_clips[k + 1]), p)

\* the indices below m whose iteration raised nothing, in increasing order
RECURSIVE Surviving(_)
Surviving(m) ==
    IF m = 0 THEN <<>>
    ELSE IF args.faults[m] = "none" THEN Append(Surviving(m - 1), m)
         ELSE Surviving(m - 1)

\* C7: a still whose processing fails is dropped and the others keep their
\* order; no still at all fails with the EmptyInput error, no surviving
\* still with the distinct NoValidSlides error, both without a timeline or
\* an output file; one surviving still or more raises neither.
C7_DroppedStillsAndErrors ==
    /\ EmptyInputMessage # NoValidSlidesMessage
    /\ LET done == IF pc = "check" THEN 0 ELSE i - 1
       IN  /\ Len(image_clips) = Len(Surviving(done))
           /\ \A k \in 1..Len(image_clips) : image_clips[k].path = Surviving(done)[k]
    /\ Failed =>
          /\ clips_with_transitions = <<>> /\ final_clip = <<>>
          /\ ~output.written
          /\ image_clips = <<>>
          /\ error = IF images = <<>> THEN EmptyInputMessage ELSE NoValidSlidesMessage
    /\ ~Failed => error = ""
    /\ (images = <<>> /\ pc # "check") => Failed
    /\ (images # <<>> /\ pc \notin {"check", "loop"}
            /\ Surviving(Len(images)) = <<>>) => Failed
    /\ Assembled => /\ image_clips # <<>>
                    /\ Len(clips_with_transitions) = 2 * Len(image_clips) - 1
    /\ pc \in {"returned", "shown"} => output.written

\* C7 witness: the second of three stills was dropped and the video of the
\* other two was written.
C7_Witness ==
    /\ pc = "shown"
    /\ Len(images) = 3
    /\ args.faults[2] # "none"
    /\ Len(image_clips) = 2
    /\ output.written

\* C8: the caller's images are as they were before the call.
C8_InputsUnchanged ==
    \A k \in 1..Len(images) : images[k] = InputStill(k)

Mirror(px) == [c \in 1..Width |-> px[Width + 1 - c]]
Columns(px) == {px[c] : c \in 1..Width}
FromB(tr, k) ==
    Cardinality({c \in 1..Width :
        SlideFrame(tr, k)[c] \in Columns(Pixels(tr.clip2)) \ Columns(Pixels(tr.clip1))})

\* C9: a transition from slide A to slide B shows A at t = 0 and B at
\* t = 1; slide_left and slide_right copy whole columns of A or B, take no
\* fewer columns from B as t grows, and mirror each other.
C9_TransitionEndpoints ==
    (Assembled /\ args.transition_effect \in TransitionKinds) =>
        \A k \in 1..(Len(image_clips) - 1) :
            LET tr == clips_with_transitions[2 * k]
                a == image_clips[k]
                b == image_clips[k + 1]
            IN  /\ FrameAtProgress(tr, 0) = Scaled(Pixels(a), FrameDen)
                /\ FrameAtProgress(tr, TicksPerSecond) = Scaled(Pixels(b), FrameDen)
                /\ tr.type = "slide" =>
                      /\ \A p \in 0..TicksPerSecond :
                            Columns(SlideFrame(tr, p))
                                \subseteq Columns(Pixels(a)) \cup Columns(Pixels(b))
                      /\ \A p \in 1..TicksPerSecond : FromB(tr, p - 1) <= FromB(tr, p)
                      /\ \A p \in 0..TicksPerSecond :
                            SlideFrame(slide_transition(a, b, "right"), p)
                                = Mirror(SlideFrame(
                                    slide_transition([a EXCEPT !.img.px = Mirror(@)],
                                                     [b EXCEPT !.img.px = Mirror(@)],
                                                     "left"), p))

\* C10: the Duration main() reports is the duration of the video written.
C10_SummaryDuration ==
    pc = "shown" => summary.Duration = Len(output.video)

====
